---- MODULE Spec2Model ----
(***************************************************************************)
(* A model of epub_to_pdf's conversion orchestrator                        *)
(* (src/epub_to_pdf/converter.py): convert_epub_to_pdf, the two engine     *)
(* adapters _convert_with_prince and _convert_with_vivliostyle, and the    *)
(* availability probes, run against a host whose installed tools may       *)
(* change while a call is in progress; and of the front end that starts    *)
(* conversions (src/epub_to_pdf/app.py).                                   *)
(***************************************************************************)
EXTENDS Integers, Sequences, FiniteSets, TLC

(***************************************************************************)
(* Bounds of the model.                                                    *)
(***************************************************************************)
\* how many times the host's installed tools may change during one call
MaxEnvChanges == 1
\* how many times the user presses the front end's convert button
MaxRequests == 3

(***************************************************************************)
(* Values.                                                                 *)
(***************************************************************************)
\* class ConversionMethod
ConversionMethod == {"prince", "vivliostyle", "auto"}

Engines == {"prince", "vivliostyle"}

\* Path.suffix values of the source, as sequences of characters
Suffixes ==
  { <<".", "e", "p", "u", "b">>,
    <<".", "E", "P", "U", "B">>,
    <<".", "t", "x", "t">>,
    << >> }

\* str.lower() on one character of the alphabet above
LowerChar(c) ==
  CASE c = "E" -> "e"
    [] c = "P" -> "p"
    [] c = "U" -> "u"
    [] c = "B" -> "b"
    [] OTHER -> c

\* str.lower()
Lower(s) == [i \in 1..Len(s) |-> LowerChar(s[i])]

EpubSuffix == <<".", "e", "p", "u", "b">>
PdfSuffix == <<".", "p", "d", "f">>

\* Path.with_suffix
WithSuffix(p, suf) == [p EXCEPT !.suffix = suf]

\* the source path without its suffix, and the caller's optional destination
SourceStem == [dir |-> "in", stem |-> "book"]
NoPath == [dir |-> "", stem |-> "", suffix |-> << >>]
GivenPdfPath == [dir |-> "out", stem |-> "result", suffix |-> PdfSuffix]

\* Python's `a or b` on strings
StrOr(a, b) == IF a # "" THEN a ELSE b

(***************************************************************************)
(* The EPUB archive: what the structure-reading adapter finds in it.       *)
(*   zip       the file is a well-formed ZIP                               *)
(*   mimetype  the `mimetype' entry: "missing", "good" or "bad"            *)
(*   container META-INF/container.xml is present                           *)
(*   rootfile  //rootfile/@full-path is non-empty                          *)
(*   opf       the package document it names exists                        *)
(*   spine     the spine's idrefs, in order                                *)
(*   manifest  the manifest's items [id, href], in the order it declares   *)
(*             them                                                        *)
(*   files     the hrefs whose files the archive holds                     *)
(*   nav       the href of the item with the nav property, or ""           *)
(*   title     dc:title, or ""; author: dc:creator, or ""                  *)
(***************************************************************************)
Ids == {"a", "b"}

\* the href the manifest gives an id
Href(id) == id \o ".xhtml"

\* a manifest declaring a and b, in that order, and one declaring b before a
ManifestAB == <<[id |-> "a", href |-> Href("a")], [id |-> "b", href |-> Href("b")]>>
ManifestBA == <<[id |-> "b", href |-> Href("b")], [id |-> "a", href |-> Href("a")]>>

\* the directory of the package document, and a path under a directory
PackageDir == "OEBPS/"
Under(dir, href) == dir \o href

Unreadable ==
  [zip |-> TRUE, mimetype |-> "good", container |-> FALSE, rootfile |-> FALSE,
   opf |-> FALSE, spine |-> << >>, manifest |-> << >>, files |-> {}, nav |-> "",
   title |-> "", author |-> ""]

\* archives that are valid EPUBs: the spine lists b before a, the manifest declares
\* the two in either order
ValidArchives ==
  { [Unreadable EXCEPT !.mimetype = v.mimetype, !.container = TRUE, !.rootfile = TRUE,
                       !.opf = TRUE, !.spine = <<"b", "a">>, !.manifest = v.manifest,
                       !.files = {Href("a"), Href("b"), "nav.xhtml"},
                       !.nav = "nav.xhtml", !.title = "Sample"]
      : v \in {[mimetype |-> "missing", manifest |-> ManifestAB],
               [mimetype |-> "good", manifest |-> ManifestBA]} }

BrokenArchives ==
  { \* not a ZIP
    [Unreadable EXCEPT !.zip = FALSE, !.mimetype = "missing"],
    \* a wrong mimetype
    [Unreadable EXCEPT !.mimetype = "bad", !.container = TRUE, !.rootfile = TRUE,
                       !.opf = TRUE, !.spine = <<"a">>, !.manifest = ManifestAB,
                       !.files = {Href("a"), Href("b")}],
    \* no META-INF/container.xml
    Unreadable,
    \* container.xml names no package document
    [Unreadable EXCEPT !.container = TRUE],
    \* the package document it names is not there
    [Unreadable EXCEPT !.container = TRUE, !.rootfile = TRUE],
    \* an empty spine
    [Unreadable EXCEPT !.container = TRUE, !.rootfile = TRUE, !.opf = TRUE,
                       !.manifest = ManifestAB, !.files = {Href("a"), Href("b")}],
    \* a spine whose idref the manifest does not declare
    [Unreadable EXCEPT !.container = TRUE, !.rootfile = TRUE, !.opf = TRUE,
                       !.spine = <<"a">>],
    \* a spine item whose file the archive does not hold
    [Unreadable EXCEPT !.container = TRUE, !.rootfile = TRUE, !.opf = TRUE,
                       !.spine = <<"b", "a">>, !.manifest = ManifestAB,
                       !.files = {Href("b")}] }

Archives == ValidArchives \cup BrokenArchives

NoArchive == [Unreadable EXCEPT !.zip = FALSE, !.mimetype = "missing"]

(***************************************************************************)
(* Messages are sequences of text fragments; concatenation is \o.          *)
(***************************************************************************)
MsgSourceNotFound == <<"EPUB file not found: ", "epub_path">>
MsgNotAnEpub == <<"File is not an EPUB: ", "epub_path">>
MsgPrinceNotInstalled == <<"Prince XML is not installed. ">>
MsgXqNotInstalled == <<"xq (XML query tool) is not installed. ">>
MsgVivliostyleNotInstalled == <<"Vivliostyle CLI is not installed. ">>
MsgBadZip == <<"Input file is not a valid ZIP/EPUB file">>
MsgBadMimetype == <<"Invalid EPUB mimetype: ", "mimetype">>
MsgNoContainer == <<"EPUB missing container.xml - not a valid EPUB3 file">>
MsgNoRootfile == <<"Could not find OPF package path in container.xml">>
MsgNoOpf == <<"OPF package file not found: ", "package_opf_path">>
MsgNoSpine == <<"No spine items found in EPUB - cannot determine content order">>
MsgPrinceEmpty == <<"Prince produced empty or no output">>
MsgPrinceTimeout == <<"Prince conversion timed out (>15 minutes)">>
MsgPrinceFailed(detail) == <<"Prince conversion failed: ", detail>>
MsgVivliostyleEmpty == <<"Vivliostyle produced empty or no output">>
MsgVivliostyleTimeout == <<"Vivliostyle conversion timed out (>15 minutes)">>
MsgVivliostyleFailed(detail) == <<"Vivliostyle conversion failed: ", detail>>
MsgAllFailedHeader == <<"All conversion methods failed:">>
MsgNoTools == <<"No conversion tools available. Please install:">>

\* the label an engine's entry carries in the accumulated error list
EntryLabel(e) == IF e = "prince" THEN "Prince: " ELSE "Vivliostyle: "

\* "\n".join(errors)
RECURSIVE Join(_)
Join(es) == IF es = << >> THEN << >> ELSE Head(es) \o Join(Tail(es))

VARIABLES
  host,        \* the tools installed on the host: [prince, xq, vivliostyle], and win32
  envChanges,  \* how many times host has changed during the call
  source,      \* the source path: [exists, suffix, archive]
  pdfArg,      \* the pdf_path argument (NoPath models None)
  hasCallback, \* a progress_callback was passed
  method,      \* the method argument
  destDir,     \* the destination's parent directory exists
  dest,        \* the destination file: [state, writer]
  pdfPath,     \* the local pdf_path once resolved
  pc,          \* the position of the call
  errors,      \* the local list `errors' of automatic mode
  outcome,     \* how the call ended: [kind, exc, msg, value, by]
  events,      \* what the call has done so far, in order: [k, v]
  tmpdir,      \* the Prince adapter's TemporaryDirectory exists
  vivLog,      \* the Vivliostyle adapter's redirected-output file exists
  runs,        \* per engine, the outcome of the engine process it ran
  seen,        \* per engine, whether it was really usable when the code looked
  princeArgs   \* the arguments the Prince process was started with

coreVars == <<host, envChanges, source, pdfArg, hasCallback, method, destDir, dest,
              pdfPath, pc, errors, outcome, events, tmpdir, vivLog, runs, seen,
              princeArgs>>

\* the front end (class EPUBToPDFApp)
VARIABLES
  current_file,     \* self.current_file (NoFile models None)
  is_converting,    \* self.is_converting
  selected_method,  \* self.selected_method, the radio buttons' variable
  output_path,      \* self.output_path ("" before the first conversion)
  convert_button,   \* the convert button's state: "disabled" or "normal"
  log_text,         \* the lines of the log pane
  progress_label,   \* the progress label's text
  progress_bar,     \* the progress bar is running
  workers,          \* how many worker threads have been started
  requests,         \* how each press of the convert button ended, in order
  methods           \* for each conversion begun: the radio selection, and the method
                    \* looked up for the worker's call of convert_epub_to_pdf

appVars == <<current_file, is_converting, selected_method, output_path, convert_button,
             log_text, progress_label, progress_bar, workers, requests, methods>>

vars == <<coreVars, appVars>>

NoFile == [name |-> "", exists |-> FALSE, suffix |-> << >>]

\* EPUBToPDFApp.__init__ and the widgets it creates
AppInit ==
  /\ current_file = NoFile
  /\ is_converting = FALSE
  /\ selected_method = "auto"
  /\ output_path = ""
  /\ convert_button = "disabled"
  /\ log_text = << >>
  /\ progress_label = ""
  /\ progress_bar = FALSE
  /\ workers = 0
  /\ requests = << >>
  /\ methods = << >>

NoOutcome == [kind |-> "none", exc |-> "", msg |-> << >>, value |-> NoPath, by |-> ""]
NoRun == [ran |-> FALSE, timeout |-> FALSE, rc |-> 0, out |-> "", err |-> "",
          destAfter |-> "absent"]

\* one step of the call: its kind k, its subject v and, for an adapter's raise, the
\* message m of the error
Event(k, v) == [k |-> k, v |-> v, m |-> << >>]
Raised(e, msg) == [k |-> "raised", v |-> e, m |-> msg]
Returned(e) == Event("returned", e)

\* progress_callback(msg), guarded by `if progress_callback:'
Progress(msg) == IF hasCallback THEN <<Event("progress", msg)>> ELSE << >>

Init ==
  /\ host \in [prince : BOOLEAN, xq : BOOLEAN, vivliostyle : BOOLEAN, win32 : BOOLEAN]
  /\ envChanges = 0
  /\ source \in [exists : BOOLEAN, suffix : Suffixes, archive : Archives]
  /\ pdfArg \in {NoPath, GivenPdfPath}
  /\ hasCallback \in BOOLEAN
  /\ method \in ConversionMethod
  /\ destDir \in BOOLEAN
  /\ dest \in {[state |-> "absent", writer |-> "none"],
               [state |-> "empty", writer |-> "earlier"],
               [state |-> "nonempty", writer |-> "earlier"]}
  /\ (~destDir => dest.state = "absent")
  \* the default destination lies beside the source; a destination the caller
  \* names lies in a directory yet to be made
  /\ (pdfArg = NoPath <=> destDir)
  \* a path that does not exist, or that the call never opens, has no content
  /\ (~source.exists \/ Lower(source.suffix) # EpubSuffix => source.archive = NoArchive)
  \* the archives that are not read to the end are tried under one spelling of .epub
  /\ (source.suffix # EpubSuffix /\ Lower(source.suffix) = EpubSuffix
        => source.archive \in ValidArchives)
  /\ pdfPath = NoPath
  /\ pc = "start"
  /\ errors = << >>
  /\ outcome = NoOutcome
  /\ events = << >>
  /\ tmpdir = FALSE
  /\ vivLog = FALSE
  /\ runs = [e \in Engines |-> NoRun]
  /\ seen = [e \in {"probe_prince", "probe_vivliostyle", "check_prince",
                    "check_vivliostyle"} |-> "unset"]
  /\ princeArgs = << >>
  /\ AppInit

(***************************************************************************)
(* Pure parts of the code.                                                 *)
(***************************************************************************)
\* _check_prince_available without the test for the xq companion
CheckPrinceAvailableNoXq(h) == h.prince

\* _check_prince_available
CheckPrinceAvailable(h) == h.prince /\ h.xq

\* _check_vivliostyle_available
CheckVivliostyleAvailable(h) == h.vivliostyle

\* the suffix test without .lower()
SuffixOkCaseSensitive(s) == s = EpubSuffix

\* the suffix test of convert_epub_to_pdf
SuffixOk(s) == Lower(s) = EpubSuffix

\* the destination the call writes to
ResolvePdfPath(arg, suffix) ==
  IF arg = NoPath THEN WithSuffix(SourceStem @@ [suffix |-> suffix], PdfSuffix) ELSE arg

\* the prerequisite re-check without the test for xq
PrincePrereqErrorNoXq(h) ==
  IF ~h.prince THEN MsgPrinceNotInstalled ELSE << >>

\* the prerequisite re-check of _convert_with_prince: the error, or << >>
PrincePrereqError(h) ==
  IF ~h.prince THEN MsgPrinceNotInstalled
  ELSE IF ~h.xq THEN MsgXqNotInstalled
  ELSE << >>

\* the prerequisite re-check of _convert_with_vivliostyle: the error, or << >>
VivliostylePrereqError(h) ==
  IF ~h.vivliostyle THEN MsgVivliostyleNotInstalled ELSE << >>

\* _run_xq(..., '//manifest/item[@id="idref"]/@href'): the href of the manifest's
\* item with that id (ids are unique in the archives above), or ""
ManifestHref(a, idref) ==
  LET items == SelectSeq(a.manifest, LAMBDA it : it.id = idref)
  IN IF items = << >> THEN "" ELSE items[1].href

\* spine_items taken from the manifest in the order it declares them
SpineItemsManifestOrder(a) ==
  LET items == SelectSeq(a.manifest,
                         LAMBDA it : \E i \in DOMAIN a.spine : a.spine[i] = it.id)
  IN [i \in DOMAIN items |-> items[i].href]

\* spine_items: the hrefs of the spine's idrefs that the manifest resolves, in
\* spine order
SpineItems(a) ==
  LET hrefs == [i \in DOMAIN a.spine |-> ManifestHref(a, a.spine[i])]
  IN SelectSeq(hrefs, LAMBDA h : h # "")

Arg(k, v) == [k |-> k, v |-> v]

\* prince_args: the style sheets, the spine items whose files exist and then the
\* navigation document, each as a path under the package document's directory, the
\* metadata options and the output
PrinceArgs(a) ==
  LET present == SelectSeq(SpineItems(a), LAMBDA h : h \in a.files)
  IN <<Arg("style", "nav.css"), Arg("style", "theme.css")>>
       \o [i \in DOMAIN present |-> Arg("input", Under(PackageDir, present[i]))]
       \o (IF a.nav # "" /\ a.nav \in a.files
           THEN <<Arg("input", Under(PackageDir, a.nav))>> ELSE << >>)
       \o (IF a.title # "" THEN <<Arg("pdf-title", a.title)>> ELSE << >>)
       \o (IF a.author # "" THEN <<Arg("pdf-author", a.author)>> ELSE << >>)
       \o <<Arg("output", "pdf_path")>>

\* TemporaryDirectory left behind when the with block is left
TemporaryDirectoryKept(t) == t

\* the end of `with tempfile.TemporaryDirectory() as tmpdir:', however it is left:
\* whether the directory still exists
TemporaryDirectoryExit(t) == FALSE

\* the output check without the size test
OutputOkExistsOnly(d) == d.state # "absent"

\* `not pdf_path.exists() or pdf_path.stat().st_size == 0', negated
OutputOk(d) == d.state = "nonempty"

\* the outcomes of one engine process: how it ended, its exit status, what it wrote
\* to its streams and what it did to the destination.  With status 0 the error
\* stream varies; with status 1 one stream at most carries text, and both are empty
\* when the process touched the destination; an exception raised after the process
\* ended (decoding its output) finds the destination written or untouched
RunResults ==
  { r \in [how : {"exit", "timeout", "exception"}, rc : {0, 1},
           out : {"", "stdout text"}, err : {"", "stderr text"},
           eff : {"none", "empty", "nonempty"}] :
      /\ r.how # "exit" => r.rc = 1 /\ r.out = "" /\ r.err = ""
      /\ r.how = "exception" => r.eff # "empty"
      /\ r.how = "exit" /\ r.rc = 0 => r.out = ""
      /\ r.how = "exit" /\ r.rc = 1 => r.out = "" \/ r.err = ""
      /\ r.how = "exit" /\ r.rc = 1 /\ r.eff # "none" => r.out = "" /\ r.err = "" }

\* what an engine process does to the destination file
ApplyEffect(d, eff, e) ==
  IF eff = "none" THEN d ELSE [state |-> eff, writer |-> e]

\* PrinceVerdict taking text on the error stream for a failure
PrinceVerdictStderrFails(r, d) ==
  IF r.how = "timeout" THEN MsgPrinceTimeout
  ELSE IF r.how = "exception" THEN MsgPrinceFailed("exception text")
  ELSE IF r.rc # 0 \/ r.err # ""
       THEN MsgPrinceFailed(StrOr(r.err, StrOr(r.out, "Unknown error")))
  ELSE IF ~OutputOk(d) THEN MsgPrinceEmpty
  ELSE << >>

\* what the adapter makes of a finished run: the error message, or << >> for success
PrinceVerdict(r, d) ==
  IF r.how = "timeout" THEN MsgPrinceTimeout
  ELSE IF r.how = "exception" THEN MsgPrinceFailed("exception text")
  ELSE IF r.rc # 0 THEN MsgPrinceFailed(StrOr(r.err, StrOr(r.out, "Unknown error")))
  ELSE IF ~OutputOk(d) THEN MsgPrinceEmpty
  ELSE << >>

VivliostyleVerdict(r, d) ==
  IF r.how = "timeout" THEN MsgVivliostyleTimeout
  ELSE IF r.how = "exception" THEN MsgVivliostyleFailed("exception text")
  ELSE IF r.rc # 0 THEN MsgVivliostyleFailed(StrOr(r.err, StrOr(r.out, "Unknown error")))
  ELSE IF ~OutputOk(d) THEN MsgVivliostyleEmpty
  ELSE << >>

\* the streams as the adapter sees them: on win32 both are redirected to one file
\* that is read back as stdout, and stderr is empty
VivliostyleStreams(r, win32) ==
  IF win32 /\ r.how = "exit"
  THEN [r EXCEPT !.out = StrOr(r.out, r.err), !.err = ""]
  ELSE r

RunRecord(r, d, started) ==
  [ran |-> started, timeout |-> r.how = "timeout", rc |-> r.rc, out |-> r.out,
   err |-> r.err, destAfter |-> d.state]

(***************************************************************************)
(* How an adapter's result reaches convert_epub_to_pdf's caller.           *)
(***************************************************************************)
Raise(exc, msg, by) ==
  [kind |-> "raise", exc |-> exc, msg |-> msg, value |-> NoPath, by |-> by]

\* AdapterRaises with an explicit method's error wrapped like an automatic-mode entry
AdapterRaisesWrapped(e, msg, evs) ==
  IF method = "auto"
  THEN /\ errors' = Append(errors, <<EntryLabel(e)>> \o msg)
       /\ outcome' = outcome
       /\ events' = events \o evs \o <<Raised(e, msg)>>
                      \o (IF e = "prince"
                          THEN Progress("Prince failed, trying Vivliostyle...") ELSE << >>)
       /\ pc' = IF e = "prince" THEN "auto_probe_vivliostyle" ELSE "auto_finish"
  ELSE /\ errors' = errors
       /\ outcome' = Raise("ConversionError", <<EntryLabel(e)>> \o msg, e)
       /\ events' = events \o evs \o <<Raised(e, msg)>>
       /\ pc' = "done"

\* AdapterRaises with errors.insert(0, ...) in place of errors.append(...)
AdapterRaisesPrepend(e, msg, evs) ==
  IF method = "auto"
  THEN /\ errors' = <<<<EntryLabel(e)>> \o msg>> \o errors
       /\ outcome' = outcome
       /\ events' = events \o evs \o <<Raised(e, msg)>>
                      \o (IF e = "prince"
                          THEN Progress("Prince failed, trying Vivliostyle...") ELSE << >>)
       /\ pc' = IF e = "prince" THEN "auto_probe_vivliostyle" ELSE "auto_finish"
  ELSE /\ errors' = errors
       /\ outcome' = Raise("ConversionError", msg, e)
       /\ events' = events \o evs \o <<Raised(e, msg)>>
       /\ pc' = "done"

\* AdapterRaises with automatic mode swallowing the error without recording it
AdapterRaisesUnrecorded(e, msg, evs) ==
  IF method = "auto"
  THEN /\ errors' = errors
       /\ outcome' = outcome
       /\ events' = events \o evs \o <<Raised(e, msg)>>
                      \o (IF e = "prince"
                          THEN Progress("Prince failed, trying Vivliostyle...") ELSE << >>)
       /\ pc' = IF e = "prince" THEN "auto_probe_vivliostyle" ELSE "auto_finish"
  ELSE /\ errors' = errors
       /\ outcome' = Raise("ConversionError", msg, e)
       /\ events' = events \o evs \o <<Raised(e, msg)>>
       /\ pc' = "done"

\* the adapter of engine e raises ConversionError(msg), having done evs: automatic
\* mode catches it, records it and goes on; an explicit method lets it through
AdapterRaises(e, msg, evs) ==
  IF method = "auto"
  THEN /\ errors' = Append(errors, <<EntryLabel(e)>> \o msg)
       /\ outcome' = outcome
       /\ IF e = "prince"
          THEN /\ events' = events \o evs \o <<Raised(e, msg)>>
                              \o Progress("Prince failed, trying Vivliostyle...")
               /\ pc' = "auto_probe_vivliostyle"
          ELSE /\ events' = events \o evs \o <<Raised(e, msg)>>
               /\ pc' = "auto_finish"
  ELSE /\ errors' = errors
       /\ outcome' = Raise("ConversionError", msg, e)
       /\ events' = events \o evs \o <<Raised(e, msg)>>
       /\ pc' = "done"

\* AdapterReturns with automatic mode going on to Vivliostyle after Prince's success
AdapterReturnsFallsThrough(e, evs) ==
  IF method = "auto" /\ e = "prince"
  THEN /\ errors' = errors
       /\ outcome' = outcome
       /\ events' = events \o evs \o <<Returned(e)>>
       /\ pc' = "auto_probe_vivliostyle"
  ELSE /\ errors' = errors
       /\ outcome' = [kind |-> "return", exc |-> "", msg |-> << >>, value |-> pdfPath,
                      by |-> e]
       /\ events' = events \o evs \o <<Returned(e)>>
       /\ pc' = "done"

\* the adapter of engine e returns pdf_path, having done evs, and
\* convert_epub_to_pdf returns what it returned
AdapterReturns(e, evs) ==
  /\ errors' = errors
  /\ outcome' = [kind |-> "return", exc |-> "", msg |-> << >>, value |-> pdfPath, by |-> e]
  /\ events' = events \o evs \o <<Returned(e)>>
  /\ pc' = "done"

(***************************************************************************)
(* convert_epub_to_pdf: validation and dispatch.                           *)
(***************************************************************************)
Validate ==
  /\ pc = "start"
  /\ IF ~source.exists
     THEN /\ outcome' = Raise("FileNotFoundError", MsgSourceNotFound, "")
          /\ pc' = "done"
          /\ UNCHANGED <<pdfPath, destDir, events>>
     ELSE IF ~SuffixOk(source.suffix)
     THEN /\ outcome' = Raise("ValueError", MsgNotAnEpub, "")
          /\ pc' = "done"
          /\ UNCHANGED <<pdfPath, destDir, events>>
     ELSE /\ pdfPath' = ResolvePdfPath(pdfArg, source.suffix)
          /\ destDir' = TRUE
          /\ events' = Append(events, Event("mkdir", "parent"))
          /\ pc' = IF method = "auto" THEN "auto_probe_prince"
                   ELSE IF method = "prince" THEN "prince_prereq"
                   ELSE "vivliostyle_prereq"
          /\ outcome' = outcome
  /\ UNCHANGED appVars
  /\ UNCHANGED <<host, envChanges, source, pdfArg, hasCallback, method, dest, errors,
                 tmpdir, vivLog, runs, seen, princeArgs>>

\* `if _check_prince_available():' of automatic mode
AutoProbePrince ==
  /\ pc = "auto_probe_prince"
  /\ seen' = [seen EXCEPT !["probe_prince"] =
                IF host.prince /\ host.xq THEN "usable" ELSE "unusable"]
  /\ IF CheckPrinceAvailable(host)
     THEN /\ events' = events \o <<Event("probe_ok", "prince")>> \o Progress("Using Prince XML...")
          /\ pc' = "prince_prereq"
     ELSE /\ events' = Append(events, Event("probe_no", "prince"))
          /\ pc' = "auto_probe_vivliostyle"
  /\ UNCHANGED appVars
  /\ UNCHANGED <<host, envChanges, source, pdfArg, hasCallback, method, destDir, dest,
                 pdfPath, errors, outcome, tmpdir, vivLog, runs, princeArgs>>

\* `if _check_vivliostyle_available():' of automatic mode
AutoProbeVivliostyle ==
  /\ pc = "auto_probe_vivliostyle"
  /\ seen' = [seen EXCEPT !["probe_vivliostyle"] =
                IF host.vivliostyle THEN "usable" ELSE "unusable"]
  /\ IF CheckVivliostyleAvailable(host)
     THEN /\ events' = events \o <<Event("probe_ok", "vivliostyle")>>
                         \o Progress("Using Vivliostyle CLI...")
          /\ pc' = "vivliostyle_prereq"
     ELSE /\ events' = Append(events, Event("probe_no", "vivliostyle"))
          /\ pc' = "auto_finish"
  /\ UNCHANGED appVars
  /\ UNCHANGED <<host, envChanges, source, pdfArg, hasCallback, method, destDir, dest,
                 pdfPath, errors, outcome, tmpdir, vivLog, runs, princeArgs>>

\* the end of automatic mode: every attempt failed, or nothing was attempted
AutoFinish ==
  /\ pc = "auto_finish"
  /\ outcome' = IF errors # << >>
                THEN Raise("ConversionError", MsgAllFailedHeader \o Join(errors), "")
                ELSE Raise("ValueError", MsgNoTools, "")
  /\ pc' = "done"
  /\ UNCHANGED appVars
  /\ UNCHANGED <<host, envChanges, source, pdfArg, hasCallback, method, destDir, dest,
                 pdfPath, errors, events, tmpdir, vivLog, runs, seen, princeArgs>>

(***************************************************************************)
(* _convert_with_prince.                                                   *)
(***************************************************************************)
\* n calls of _run_xq, each an external process
XqCalls(n) == [i \in 1..n |-> Event("proc", "xq")]

\* the prerequisite re-check and the first progress notification
PrincePrereq ==
  /\ pc = "prince_prereq"
  /\ seen' = [seen EXCEPT !["check_prince"] =
                IF host.prince /\ host.xq THEN "usable" ELSE "unusable"]
  /\ IF PrincePrereqError(host) # << >>
     THEN AdapterRaises("prince", PrincePrereqError(host), <<Event("call", "prince")>>)
     ELSE /\ events' = events \o <<Event("call", "prince")>>
                         \o Progress("Analyzing EPUB structure...")
          /\ pc' = "prince_open"
          /\ UNCHANGED <<errors, outcome>>
  /\ UNCHANGED appVars
  /\ UNCHANGED <<host, envChanges, source, pdfArg, hasCallback, method, destDir, dest,
                 pdfPath, tmpdir, vivLog, runs, princeArgs>>

\* the scratch directory, the ZIP and mimetype checks, and the extraction
PrinceOpen ==
  /\ pc = "prince_open"
  /\ IF ~source.archive.zip
     THEN /\ AdapterRaises("prince", MsgBadZip, <<Event("open", "archive")>>)
          /\ tmpdir' = TemporaryDirectoryExit(TRUE)
     ELSE IF source.archive.mimetype = "bad"
     THEN /\ AdapterRaises("prince", MsgBadMimetype, <<Event("open", "archive")>>)
          /\ tmpdir' = TemporaryDirectoryExit(TRUE)
     ELSE /\ events' = events \o <<Event("open", "archive"), Event("extract", "archive")>>
                         \o Progress("Parsing EPUB metadata...")
          /\ tmpdir' = TRUE
          /\ pc' = "prince_structure"
          /\ UNCHANGED <<errors, outcome>>
  /\ UNCHANGED appVars
  /\ UNCHANGED <<host, envChanges, source, pdfArg, hasCallback, method, destDir, dest,
                 pdfPath, vivLog, runs, seen, princeArgs>>

\* container.xml, the package document, the spine, the navigation document and the
\* metadata, read with xq; the engine's arguments
PrinceStructure ==
  /\ pc = "prince_structure"
  /\ \E hangs \in BOOLEAN :
       LET a == source.archive
           idrefs == Len(a.spine)
       IN IF ~a.container
          THEN /\ AdapterRaises("prince", MsgNoContainer, << >>)
               /\ tmpdir' = TemporaryDirectoryExit(tmpdir)
          ELSE IF ~host.xq
          THEN /\ AdapterRaises("prince", MsgPrinceFailed("exception text"), << >>)
               /\ tmpdir' = TemporaryDirectoryExit(tmpdir)
          ELSE IF hangs
          THEN \* subprocess.run in _run_xq has no timeout: an xq that never exits is
               \* waited for for ever
               /\ events' = events \o XqCalls(1)
               /\ pc' = "prince_xq_wait"
               /\ UNCHANGED <<errors, outcome, tmpdir>>
          ELSE IF ~a.rootfile
          THEN /\ AdapterRaises("prince", MsgNoRootfile, XqCalls(1))
               /\ tmpdir' = TemporaryDirectoryExit(tmpdir)
          ELSE IF ~a.opf
          THEN /\ AdapterRaises("prince", MsgNoOpf, XqCalls(1))
               /\ tmpdir' = TemporaryDirectoryExit(tmpdir)
          ELSE IF SpineItems(a) = << >>
          THEN /\ AdapterRaises("prince", MsgNoSpine, XqCalls(2 + idrefs))
               /\ tmpdir' = TemporaryDirectoryExit(tmpdir)
          ELSE /\ events' = events \o XqCalls(5 + idrefs)
                              \o Progress("Generating PDF with Prince (this may take a while)...")
               /\ pc' = "prince_run"
               /\ UNCHANGED <<errors, outcome, tmpdir>>
  /\ UNCHANGED appVars
  /\ UNCHANGED <<host, envChanges, source, pdfArg, hasCallback, method, destDir, dest,
                 pdfPath, vivLog, runs, seen, princeArgs>>

\* the engine process and what the adapter makes of its result
PrinceRun ==
  /\ pc = "prince_run"
  /\ \E r \in RunResults :
       /\ ~host.prince => r.how = "exception" /\ r.eff = "none"
       /\ LET started == host.prince
              d == ApplyEffect(dest, r.eff, "prince")
              evs == IF started THEN <<Event("proc", "prince")>> ELSE << >>
          IN /\ dest' = d
             /\ runs' = [runs EXCEPT !["prince"] = RunRecord(r, d, started)]
             /\ IF PrinceVerdict(r, d) = << >>
                THEN AdapterReturns("prince", evs \o Progress("Conversion complete!"))
                ELSE AdapterRaises("prince", PrinceVerdict(r, d), evs)
  /\ princeArgs' = IF host.prince THEN PrinceArgs(source.archive) ELSE princeArgs
  /\ tmpdir' = TemporaryDirectoryExit(tmpdir)
  /\ UNCHANGED appVars
  /\ UNCHANGED <<host, envChanges, source, pdfArg, hasCallback, method, destDir,
                 pdfPath, vivLog, seen>>

(***************************************************************************)
(* _convert_with_vivliostyle.                                              *)
(***************************************************************************)
VivliostylePrereq ==
  /\ pc = "vivliostyle_prereq"
  /\ seen' = [seen EXCEPT !["check_vivliostyle"] =
                IF host.vivliostyle THEN "usable" ELSE "unusable"]
  /\ IF VivliostylePrereqError(host) # << >>
     THEN AdapterRaises("vivliostyle", VivliostylePrereqError(host),
                        <<Event("call", "vivliostyle")>>)
     ELSE /\ events' = events \o <<Event("call", "vivliostyle")>>
                         \o Progress("Converting with Vivliostyle CLI...")
          /\ pc' = "vivliostyle_run"
          /\ UNCHANGED <<errors, outcome>>
  /\ UNCHANGED appVars
  /\ UNCHANGED <<host, envChanges, source, pdfArg, hasCallback, method, destDir, dest,
                 pdfPath, tmpdir, vivLog, runs, princeArgs>>

\* whether .vivliostyle_log_<stem>.txt, which the shell's redirection creates next to
\* the destination, is still there when the adapter is left: it is unlinked after
\* subprocess.run has returned, and a TimeoutExpired raised by subprocess.run skips
\* that; a shell that could not be started created nothing
VivliostyleLogLeft(r, win32) == win32 /\ r.how = "timeout"

\* the engine process (through the shell, its output redirected to a file, on win32)
\* and what the adapter makes of its result
VivliostyleRun ==
  /\ pc = "vivliostyle_run"
  /\ \E r0 \in RunResults :
       /\ ~host.vivliostyle /\ ~host.win32 => r0.how = "exception" /\ r0.eff = "none"
       /\ ~host.vivliostyle /\ host.win32 =>
            r0.how = "exit" /\ r0.rc = 1 /\ r0.eff = "none" /\ r0.out = ""
            /\ r0.err = "stderr text"
       /\ LET started == host.vivliostyle
              r == VivliostyleStreams(r0, host.win32)
              d == ApplyEffect(dest, r.eff, "vivliostyle")
              evs == IF started THEN <<Event("proc", "vivliostyle")>>
                     ELSE IF host.win32 THEN <<Event("proc", "shell")>>
                     ELSE << >>
          IN /\ dest' = d
             /\ runs' = [runs EXCEPT !["vivliostyle"] = RunRecord(r, d, started)]
             /\ vivLog' = VivliostyleLogLeft(r, host.win32)
             /\ IF VivliostyleVerdict(r, d) = << >>
                THEN AdapterReturns("vivliostyle", evs \o Progress("Conversion complete!"))
                ELSE AdapterRaises("vivliostyle", VivliostyleVerdict(r, d), evs)
  /\ UNCHANGED appVars
  /\ UNCHANGED <<host, envChanges, source, pdfArg, hasCallback, method, destDir,
                 pdfPath, tmpdir, seen, princeArgs>>

(***************************************************************************)
(* The host: a tool is installed or removed while the call is running and  *)
(* still has a look at the host ahead of it.                               *)
(***************************************************************************)
EnvChange ==
  /\ pc \notin {"start", "done", "auto_finish", "prince_xq_wait"}
  /\ envChanges < MaxEnvChanges
  /\ envChanges' = envChanges + 1
  /\ \E t \in {"prince", "xq", "vivliostyle"} : host' = [host EXCEPT ![t] = ~host[t]]
  /\ UNCHANGED appVars
  /\ UNCHANGED <<source, pdfArg, hasCallback, method, destDir, dest, pdfPath, pc,
                 errors, outcome, events, tmpdir, vivLog, runs, seen, princeArgs>>

Next ==
  \/ Validate
  \/ AutoProbePrince
  \/ AutoProbeVivliostyle
  \/ AutoFinish
  \/ PrincePrereq
  \/ PrinceOpen
  \/ PrinceStructure
  \/ PrinceRun
  \/ VivliostylePrereq
  \/ VivliostyleRun
  \/ EnvChange

Spec == Init /\ [][Next]_vars

(***************************************************************************)
(* The front end (app.py): the user loads files, selects a method and      *)
(* presses the convert button.                                             *)
(***************************************************************************)
\* the paths the user drops or browses to
Files ==
  { [name |-> "book.epub", exists |-> TRUE, suffix |-> <<".", "e", "p", "u", "b">>],
    [name |-> "BOOK.EPUB", exists |-> TRUE, suffix |-> <<".", "E", "P", "U", "B">>],
    [name |-> "notes.txt", exists |-> TRUE, suffix |-> <<".", "t", "x", "t">>],
    [name |-> "gone.epub", exists |-> FALSE, suffix |-> <<".", "e", "p", "u", "b">>] }

\* what the save dialog returns: "" when it is cancelled
SaveAs == {"", "book.pdf", "other.pdf"}

\* the members of class ConversionMethod
ConversionMethodMembers == {"PRINCE", "VIVLIOSTYLE", "AUTO"}

\* the value of a member
MemberValue(m) ==
  CASE m = "PRINCE" -> "prince"
    [] m = "VIVLIOSTYLE" -> "vivliostyle"
    [] m = "AUTO" -> "auto"

\* the dict display of _start_conversion: the members its values name
MethodTable ==
  [auto |-> "AUTO", vivliostyle |-> "VIVLIOSTYLE", calibre |-> "CALIBRE"]

\* {...}.get(method_str, ConversionMethod.AUTO): evaluating the display looks every
\* member up, and a name the class does not have raises AttributeError
MethodLookup(method_str) ==
  IF \E k \in DOMAIN MethodTable : MethodTable[k] \notin ConversionMethodMembers
  THEN "AttributeError"
  ELSE IF method_str \in DOMAIN MethodTable THEN MethodTable[method_str]
  ELSE "AUTO"

\* the first test of _start_conversion without the is_converting flag
StartConversionRefusedNoFlag(file, converting) == file = NoFile

\* `if self.current_file is None or self.is_converting: return'
StartConversionRefused(file, converting) == file = NoFile \/ converting

\* _load_file, reached from a drop or from the file browser
LoadFile ==
  /\ \E file \in Files :
       IF ~file.exists \/ Lower(file.suffix) # EpubSuffix
       THEN UNCHANGED <<current_file, convert_button>>
       ELSE /\ current_file' = file
            /\ convert_button' = "normal"
  /\ UNCHANGED <<is_converting, selected_method, output_path, log_text, progress_label,
                 progress_bar, workers, requests, methods>>
  /\ UNCHANGED coreVars

\* a radio button of _create_options
SelectMethod ==
  /\ \E m \in {"auto", "prince", "vivliostyle"} : selected_method' = m
  /\ UNCHANGED <<current_file, is_converting, output_path, convert_button, log_text,
                 progress_label, progress_bar, workers, requests, methods>>
  /\ UNCHANGED coreVars

\* _start_conversion, the command of the convert button; a disabled button does not
\* run its command.  An exception leaves the callback where it is raised.
StartConversion ==
  /\ convert_button = "normal"
  /\ Len(requests) < MaxRequests
  /\ \E chosen \in SaveAs :
       IF StartConversionRefused(current_file, is_converting)
       THEN /\ requests' = Append(requests, "refused")
            /\ UNCHANGED <<is_converting, output_path, convert_button, log_text,
                           progress_label, progress_bar, workers, methods>>
       ELSE IF chosen = ""
       THEN /\ requests' = Append(requests, "cancelled")
            /\ UNCHANGED <<is_converting, output_path, convert_button, log_text,
                           progress_label, progress_bar, workers, methods>>
       ELSE /\ output_path' = chosen
            /\ is_converting' = TRUE
            /\ convert_button' = "disabled"
            /\ progress_bar' = TRUE
            /\ progress_label' = "Starting conversion..."
            /\ methods' = Append(methods, [selected |-> selected_method,
                                            method |-> MethodLookup(selected_method)])
            /\ LET m == MethodLookup(selected_method)
                   shown == <<"Input: " \o current_file.name, "Output: " \o chosen>>
               IN IF m = "AttributeError"
                  THEN /\ log_text' = shown
                       /\ requests' = Append(requests, "AttributeError")
                       /\ UNCHANGED workers
                  ELSE /\ log_text' = shown \o <<"Method: " \o MemberValue(m),
                                                 "========================================">>
                       /\ requests' = Append(requests, "started")
                       /\ workers' = workers + 1
  /\ UNCHANGED <<current_file, selected_method>>
  /\ UNCHANGED coreVars

NextApp ==
  \/ LoadFile
  \/ SelectMethod
  \/ StartConversion

\* the front end alone, no call of convert_epub_to_pdf in progress
InitApp ==
  /\ AppInit
  /\ host = [prince |-> TRUE, xq |-> TRUE, vivliostyle |-> TRUE, win32 |-> FALSE]
  /\ envChanges = 0
  /\ source = [exists |-> TRUE, suffix |-> EpubSuffix,
               archive |-> CHOOSE a \in ValidArchives : a.mimetype = "good"]
  /\ pdfArg = GivenPdfPath
  /\ hasCallback = TRUE
  /\ method = "auto"
  /\ destDir = FALSE
  /\ dest = [state |-> "absent", writer |-> "none"]
  /\ pdfPath = NoPath
  /\ pc = "start"
  /\ errors = << >>
  /\ outcome = NoOutcome
  /\ events = << >>
  /\ tmpdir = FALSE
  /\ vivLog = FALSE
  /\ runs = [e \in Engines |-> NoRun]
  /\ seen = [e \in {"probe_prince", "probe_vivliostyle", "check_prince",
                    "check_vivliostyle"} |-> "unset"]
  /\ princeArgs = << >>

SpecApp == InitApp /\ [][NextApp]_vars

(***************************************************************************)
(* What the call has done, read off its history.                           *)
(***************************************************************************)
Has(k, v) == \E i \in DOMAIN events : events[i].k = k /\ events[i].v = v
HasKind(k) == \E i \in DOMAIN events : events[i].k = k
Count(k, v) == Cardinality({i \in DOMAIN events : events[i].k = k /\ events[i].v = v})
Done == pc = "done"
\* the input passed validation
Validated == source.exists /\ Lower(source.suffix) = EpubSuffix
\* an engine process, or the shell that is to start one, was run
EngineProcessRun == \E i \in DOMAIN events :
                      events[i].k = "proc" /\ events[i].v \in Engines \cup {"shell"}
\* the adapters' raises, in order, and the entries automatic mode makes of them
RaisedEvents == SelectSeq(events, LAMBDA ev : ev.k = "raised")
Entries == [i \in DOMAIN RaisedEvents |->
              <<EntryLabel(RaisedEvents[i].v)>> \o RaisedEvents[i].m]
RECURSIVE Flatten(_)
Flatten(ss) == IF ss = << >> THEN << >> ELSE Head(ss) \o Flatten(Tail(ss))
\* engine e's adapter ended in the failure m
EngineFailedWith(e, m) ==
  IF method = "auto"
  THEN \E i \in DOMAIN errors : errors[i] = <<EntryLabel(e)>> \o m
  ELSE outcome = Raise("ConversionError", m, e)
EmptyOutputMsg(e) == IF e = "prince" THEN MsgPrinceEmpty ELSE MsgVivliostyleEmpty
NotInstalledMsgs(e) ==
  IF e = "prince" THEN {MsgPrinceNotInstalled, MsgXqNotInstalled}
  ELSE {MsgVivliostyleNotInstalled}

(***************************************************************************)
(* C1: whenever convert_epub_to_pdf returns a path, the file at that path  *)
(* exists and is not empty; and an engine process that exited with status  *)
(* 0 leaving the destination missing or empty makes its adapter fail with  *)
(* the empty-output error, never return.                                   *)
(***************************************************************************)
C1_SuccessHasNonEmptyOutput ==
  /\ outcome.kind = "return" =>
       /\ dest.state = "nonempty"
       /\ outcome.value = pdfPath
       /\ pdfPath # NoPath
  /\ \A e \in Engines :
       runs[e].ran /\ ~runs[e].timeout /\ runs[e].rc = 0 /\ runs[e].destAfter # "nonempty" =>
         /\ EngineFailedWith(e, EmptyOutputMsg(e))
         /\ ~(outcome.kind = "return" /\ outcome.by = e)

C1_Witness ==
  /\ runs["prince"].ran /\ runs["prince"].rc = 0 /\ runs["prince"].destAfter = "empty"
  /\ outcome.kind = "return" /\ outcome.by = "vivliostyle"

(***************************************************************************)
(* C2: a source that does not exist fails with FileNotFoundError, one that *)
(* exists with a suffix other than .epub (case-insensitively) fails with   *)
(* ValueError, in both cases before anything else is done: no directory    *)
(* made, no probe, no adapter call, no extraction, no process; and a       *)
(* source with the suffix .epub in any case passes validation.             *)
(***************************************************************************)
C2_ValidationFirst ==
  pc # "start" =>
    /\ ~source.exists =>
         /\ Done
         /\ outcome = Raise("FileNotFoundError", MsgSourceNotFound, "")
         /\ events = << >>
    /\ source.exists /\ Lower(source.suffix) # EpubSuffix =>
         /\ Done
         /\ outcome = Raise("ValueError", MsgNotAnEpub, "")
         /\ events = << >>
    /\ source.exists /\ Lower(source.suffix) = EpubSuffix =>
         /\ events # << >>
         /\ events[1] = Event("mkdir", "parent")
         /\ outcome.exc # "FileNotFoundError"
         /\ outcome.msg # MsgNotAnEpub

C2_Witness ==
  /\ Done
  /\ source.exists /\ source.suffix = <<".", "t", "x", "t">>
  /\ method = "auto" /\ host.prince /\ host.xq /\ host.vivliostyle
  /\ outcome.exc = "ValueError" /\ ~destDir

(***************************************************************************)
(* C3: in automatic mode each adapter is invoked at most once, Prince      *)
(* before Vivliostyle; Vivliostyle's adapter is invoked only after Prince  *)
(* was found unavailable or has failed; nothing is invoked after an        *)
(* adapter has returned.                                                   *)
(***************************************************************************)
C3_AutoSequential ==
  method = "auto" =>
    /\ \A e \in Engines : Count("call", e) <= 1
    /\ \A j \in DOMAIN events :
         events[j].k = "call" /\ events[j].v = "vivliostyle" =>
           \E i \in 1..(j - 1) :
             \/ events[i] = Event("probe_no", "prince")
             \/ events[i].k = "raised" /\ events[i].v = "prince"
    /\ \A i \in DOMAIN events :
         events[i].k = "returned" =>
           \A j \in (i + 1)..Len(events) : events[j].k \notin {"call", "proc", "probe_ok"}
    /\ \A i \in DOMAIN events :
         events[i] = Event("call", "vivliostyle") =>
           \A j \in (i + 1)..Len(events) : events[j] # Event("call", "prince")

C3_Witness ==
  /\ method = "auto"
  /\ Has("raised", "prince") /\ Has("proc", "prince")
  /\ Has("call", "vivliostyle")

(***************************************************************************)
(* C4: with an explicit method, only that engine's adapter is invoked, and *)
(* once; when it fails the caller gets its ConversionError with the        *)
(* adapter's own message, nothing added.                                   *)
(***************************************************************************)
C4_ExplicitDirect ==
  method \in Engines =>
    /\ \A e \in Engines \ {method} :
         Count("call", e) = 0 /\ ~HasKind("probe_ok") /\ ~HasKind("probe_no")
    /\ Count("call", method) <= 1
    /\ Done /\ Validated =>
         /\ Count("call", method) = 1
         /\ outcome.kind = "raise" =>
              /\ outcome.exc = "ConversionError"
              /\ Len(RaisedEvents) = 1
              /\ RaisedEvents[1].v = method
              /\ outcome.msg = RaisedEvents[1].m
         /\ outcome.kind = "return" => Has("returned", method) /\ RaisedEvents = << >>

C4_Witness ==
  /\ method = "vivliostyle" /\ Done
  /\ outcome.kind = "raise"
  /\ outcome.msg = MsgVivliostyleFailed("stderr text")
  /\ host.prince /\ host.xq

(***************************************************************************)
(* C5: in automatic mode, when at least one adapter was invoked and none   *)
(* returned, the call raises one ConversionError whose message is the      *)
(* header followed by exactly one entry per invoked engine, in the order   *)
(* of the attempts (Prince's before Vivliostyle's).                        *)
(***************************************************************************)
C5_AggregatedFailure ==
  method = "auto" /\ Done /\ HasKind("call") /\ ~HasKind("returned") =>
    /\ outcome.kind = "raise"
    /\ outcome.exc = "ConversionError"
    /\ outcome.msg = MsgAllFailedHeader \o Flatten(Entries)
    /\ errors = Entries
    /\ \A e \in Engines :
         Cardinality({i \in DOMAIN errors : errors[i][1] = EntryLabel(e)})
           = Count("call", e)
    /\ Len(errors) = 2 => errors[1][1] = "Prince: " /\ errors[2][1] = "Vivliostyle: "

C5_Witness ==
  /\ method = "auto" /\ Done
  /\ Has("proc", "prince") /\ Has("proc", "vivliostyle")
  /\ Len(errors) = 2
  /\ outcome.exc = "ConversionError"

(***************************************************************************)
(* C6: in automatic mode, when Prince with xq and Vivliostyle are both     *)
(* unusable at the moment they are probed, the call ends with the          *)
(* no-tools ValueError, not a ConversionError, no adapter was invoked and  *)
(* no process was started.                                                 *)
(***************************************************************************)
C6_NoToolsAvailable ==
  /\ method = "auto" /\ seen["probe_prince"] = "unusable" =>
       ~Has("call", "prince") /\ ~Has("proc", "prince") /\ ~Has("proc", "xq")
  /\ method = "auto" /\ Done
     /\ seen["probe_prince"] = "unusable" /\ seen["probe_vivliostyle"] = "unusable" =>
       /\ outcome = Raise("ValueError", MsgNoTools, "")
       /\ outcome.exc # "ConversionError"
       /\ ~HasKind("call")
       /\ ~HasKind("proc")
       /\ ~HasKind("open")

C6_Witness ==
  /\ method = "auto" /\ Done
  /\ envChanges = 0 /\ host.prince /\ ~host.xq /\ ~host.vivliostyle
  /\ outcome.exc = "ValueError" /\ outcome.msg = MsgNoTools

(***************************************************************************)
(* C7: in automatic mode, when Prince's adapter was invoked and failed and *)
(* Vivliostyle's adapter then returned, the call returns the destination   *)
(* path that adapter returned, raises nothing, and exactly one failure,    *)
(* Prince's, has been recorded.                                            *)
(***************************************************************************)
C7_FallbackSucceeds ==
  method = "auto" /\ Has("raised", "prince") /\ Has("returned", "vivliostyle") =>
    /\ Done
    /\ outcome.kind = "return"
    /\ outcome.by = "vivliostyle"
    /\ outcome.value = ResolvePdfPath(pdfArg, source.suffix)
    /\ outcome.exc = ""
    /\ Len(errors) = 1
    /\ errors[1] = Entries[1]
    /\ errors[1][1] = "Prince: "

C7_Witness ==
  /\ method = "auto" /\ Done
  /\ Has("proc", "prince") /\ Has("raised", "prince")
  /\ Has("proc", "vivliostyle") /\ Has("returned", "vivliostyle")
  /\ outcome.kind = "return" /\ pdfArg = NoPath

(***************************************************************************)
(* C8: with an explicit method whose engine is unusable when the adapter   *)
(* looks (Prince or xq missing; Vivliostyle missing), the adapter itself   *)
(* finds that out and the call fails with the not-installed                *)
(* ConversionError before any process is started and before the archive   *)
(* is opened or extracted.                                                 *)
(***************************************************************************)
C8_ExplicitUnavailable ==
  \A e \in Engines :
    method = e /\ seen["check_" \o e] = "unusable" =>
      /\ Done
      /\ Has("call", e)
      /\ outcome.kind = "raise"
      /\ outcome.exc = "ConversionError"
      /\ outcome.msg \in NotInstalledMsgs(e)
      /\ ~HasKind("proc")
      /\ ~HasKind("open")
      /\ ~HasKind("extract")
      /\ ~tmpdir

C8_Witness ==
  /\ method = "prince" /\ Done
  /\ host.prince /\ ~host.xq /\ envChanges = 0
  /\ source.archive \in ValidArchives
  /\ outcome.msg = MsgXqNotInstalled

(***************************************************************************)
(* C9: after a call that ends in failure, no destination file written by   *)
(* an engine during that call remains on disk.                             *)
(***************************************************************************)
C9_NoPartialOutputAfterFailure ==
  Done /\ outcome.kind = "raise" => ~(dest.writer \in Engines /\ dest.state # "absent")

(***************************************************************************)
(* C10: an existing .epub source that is not a valid ZIP makes the call    *)
(* fail with the invalid-archive error before any engine process is run,   *)
(* whatever the method and the installed tools.                            *)
(***************************************************************************)
C10_InvalidArchiveBeforeEngines ==
  Validated /\ ~source.archive.zip =>
    /\ ~EngineProcessRun
    /\ Done => outcome.kind = "raise" /\ outcome.msg = MsgBadZip

(***************************************************************************)
(* The front end's relay of progress notifications (app.py): the callback  *)
(* it passes, _update_progress, schedules two callbacks on the main loop   *)
(* with root.after(0, ...), which runs the callbacks due at the same time  *)
(* in the order they were scheduled.                                       *)
(***************************************************************************)
\* _update_progress with the two callbacks put ahead of those already scheduled
UpdateProgressAhead(queue, message) ==
  <<[op |-> "label", text |-> message], [op |-> "append_log", text |-> message]>>
    \o queue

\* EPUBToPDFApp._update_progress: the main loop's queue after the call
UpdateProgress(queue, message) ==
  queue \o <<[op |-> "label", text |-> message], [op |-> "append_log", text |-> message]>>

\* the main loop's queue after _update_progress was called with each of msgs in turn
RECURSIVE Scheduled(_)
Scheduled(msgs) ==
  IF msgs = << >> THEN << >>
  ELSE UpdateProgress(Scheduled(SubSeq(msgs, 1, Len(msgs) - 1)), msgs[Len(msgs)])

\* EPUBToPDFApp._append_log: the log pane after the main loop ran the first n
\* callbacks of queue
RECURSIVE LogPaneAfter(_, _)
LogPaneAfter(queue, n) ==
  IF n = 0 THEN << >>
  ELSE IF queue[n].op = "append_log"
       THEN Append(LogPaneAfter(queue, n - 1), queue[n].text)
       ELSE LogPaneAfter(queue, n - 1)

\* the progress_label after the main loop ran the first n callbacks of queue
RECURSIVE ProgressLabelAfter(_, _)
ProgressLabelAfter(queue, n) ==
  IF n = 0 THEN "Ready"
  ELSE IF queue[n].op = "label" THEN queue[n].text
       ELSE ProgressLabelAfter(queue, n - 1)

(***************************************************************************)
(* C11: the progress notifications reach the callback in the order of the  *)
(* steps they announce; in automatic mode, when Prince's adapter was       *)
(* invoked, nothing of the Vivliostyle attempt is notified before          *)
(* "Prince failed, trying Vivliostyle..."; and the log pane the front end  *)
(* relays them to shows them in that same order, at every moment a prefix  *)
(* of what was delivered.  Stated of the history of a call at rest.        *)
(***************************************************************************)
Delivered ==
  LET ps == SelectSeq(events, LAMBDA ev : ev.k = "progress")
  IN [i \in DOMAIN ps |-> ps[i].v]

IsPrefix(s, t) == Len(s) <= Len(t) /\ s = SubSeq(t, 1, Len(s))

\* every event ev comes after some progress notification msg
After(ev, msg) ==
  \A j \in DOMAIN events :
    events[j] = ev => \E i \in 1..(j - 1) : events[i] = Event("progress", msg)

\* every progress notification msg comes after some event ev
NotifiedAfter(msg, ev) ==
  \A j \in DOMAIN events :
    events[j] = Event("progress", msg) => \E i \in 1..(j - 1) : events[i] = ev

\* the call has come to rest: it has ended, or it waits for a process for ever; the
\* history only grows, so the histories of the earlier states are prefixes of this one
AtRest == pc \in {"done", "prince_xq_wait"}

C11_ProgressInOrder ==
  hasCallback /\ AtRest =>
    /\ After(Event("call", "prince"), "Using Prince XML...") \/ method # "auto"
    /\ After(Event("open", "archive"), "Analyzing EPUB structure...")
    /\ After(Event("proc", "xq"), "Parsing EPUB metadata...")
    /\ After(Event("proc", "prince"),
             "Generating PDF with Prince (this may take a while)...")
    /\ After(Event("proc", "vivliostyle"), "Converting with Vivliostyle CLI...")
    /\ NotifiedAfter("Analyzing EPUB structure...", Event("call", "prince"))
    /\ NotifiedAfter("Parsing EPUB metadata...", Event("extract", "archive"))
    /\ NotifiedAfter("Converting with Vivliostyle CLI...", Event("call", "vivliostyle"))
    /\ \A j \in DOMAIN events :
         events[j] = Event("progress", "Conversion complete!") =>
           j > 1 /\ events[j - 1].k = "proc" /\ events[j - 1].v \in Engines
    /\ \A j \in DOMAIN events :
         events[j].k = "raised" /\ events[j].v = "prince" /\ method = "auto" =>
           j < Len(events)
           /\ events[j + 1] = Event("progress", "Prince failed, trying Vivliostyle...")
    /\ method = "auto" /\ Has("call", "prince") =>
         \A j \in DOMAIN events :
           /\ events[j].k = "progress"
           /\ \/ events[j].v \in {"Using Vivliostyle CLI...",
                                  "Converting with Vivliostyle CLI..."}
              \/ \E i \in 1..(j - 1) : events[i] = Event("call", "vivliostyle")
           => \E i \in 1..(j - 1) :
                events[i] = Event("progress", "Prince failed, trying Vivliostyle...")
    /\ LET queue == Scheduled(Delivered)
       IN /\ Len(queue) = 2 * Len(Delivered)
          /\ \A n \in 0..Len(queue) : IsPrefix(LogPaneAfter(queue, n), Delivered)
          /\ LogPaneAfter(queue, Len(queue)) = Delivered
          /\ Delivered # << >> =>
               ProgressLabelAfter(queue, Len(queue)) = Delivered[Len(Delivered)]

C11_Witness ==
  /\ hasCallback /\ method = "auto" /\ Done
  /\ Has("proc", "prince") /\ Has("raised", "prince")
  /\ Has("progress", "Prince failed, trying Vivliostyle...")
  /\ Has("progress", "Converting with Vivliostyle CLI...")
  /\ Has("proc", "vivliostyle")
  /\ LogPaneAfter(Scheduled(Delivered), 2 * Len(Delivered)) = Delivered
  /\ Len(Delivered) >= 6

(***************************************************************************)
(* C12: on every exit path of the structure-reading Prince adapter the     *)
(* scratch directory the archive was extracted into is gone by the time    *)
(* the adapter returns or raises: the directory exists only while the      *)
(* adapter is between the extraction and its exit, never once the adapter  *)
(* has returned or raised; and an archive without META-INF/container.xml   *)
(* ends in the missing-container failure with the directory deleted.       *)
(***************************************************************************)
PrinceExited == Has("returned", "prince") \/ Has("raised", "prince")

InsideWithBlock == pc \in {"prince_structure", "prince_run", "prince_xq_wait"}

C12_ScratchDirReclaimed ==
  /\ tmpdir => InsideWithBlock /\ ~PrinceExited
  /\ PrinceExited => ~tmpdir
  /\ Has("extract", "archive") /\ ~source.archive.container /\ ~InsideWithBlock
       => /\ Has("raised", "prince")
          /\ EngineFailedWith("prince", MsgNoContainer)
          /\ ~tmpdir

\* the archive was extracted, container.xml was missing, the adapter has raised
C12_Witness ==
  /\ Has("extract", "archive")
  /\ \E i \in DOMAIN events : events[i] = Raised("prince", MsgNoContainer)
  /\ ~tmpdir
  /\ Done

(***************************************************************************)
(* C13: every scratch file an adapter creates is gone when the adapter     *)
(* returns or raises: Prince's style sheets, which live in the scratch     *)
(* directory, and the log file Vivliostyle's output is redirected to next  *)
(* to the destination.                                                     *)
(***************************************************************************)
VivliostyleExited == Has("returned", "vivliostyle") \/ Has("raised", "vivliostyle")

C13_NoScratchFilesAfterExit ==
  /\ PrinceExited => ~tmpdir
  /\ VivliostyleExited => ~vivLog

(***************************************************************************)
(* C14: every external process a conversion starts runs under a finite     *)
(* timeout, so no call is ever left waiting on a process that never exits: *)
(* a call is never blocked in an xq helper, and an engine that runs past    *)
(* its timeout ends the attempt with that engine's timeout failure.        *)
(***************************************************************************)
WaitingWithoutTimeout == pc = "prince_xq_wait"

TimeoutMsg(e) == IF e = "prince" THEN MsgPrinceTimeout ELSE MsgVivliostyleTimeout

C14_EveryProcessBounded ==
  /\ ~WaitingWithoutTimeout
  /\ \A e \in Engines :
       runs[e].ran /\ runs[e].timeout /\ Done => EngineFailedWith(e, TimeoutMsg(e))

(***************************************************************************)
(* C15: in automatic mode an engine whose prerequisites are missing is     *)
(* only left out of the attempt sequence: it puts no entry in the          *)
(* accumulated error list, also when it became unavailable between the     *)
(* availability probe and the adapter's own re-check; so a call that       *)
(* passed validation, opened no archive and started no process ends in the *)
(* no-tools-available error.                                               *)
(***************************************************************************)
PrerequisiteEntries(e) ==
  {i \in DOMAIN errors : \E m \in NotInstalledMsgs(e) : errors[i] = <<EntryLabel(e)>> \o m}

C15_UnavailableEngineOnlyExcluded ==
  method = "auto" =>
    /\ \A e \in Engines : PrerequisiteEntries(e) = {}
    /\ Done /\ Validated /\ ~HasKind("proc") /\ ~HasKind("open")
         => outcome = Raise("ValueError", MsgNoTools, "")

(***************************************************************************)
(* C16: an adapter's outcome depends only on the engine's exit status and  *)
(* on the exists-and-non-empty check of the destination.  Whenever an      *)
(* engine is about to be run, any two runs that exit with the same status  *)
(* and do the same to the destination, whatever they write to standard     *)
(* output and standard error, make the adapter both succeed or both fail;  *)
(* and an adapter has returned exactly when its engine exited with status  *)
(* 0 and the destination was there and not empty, so text on the error     *)
(* stream with status 0 never makes a run a failure.                       *)
(***************************************************************************)
Exits == {r \in RunResults : r.how = "exit"}

SameButStreams(r1, r2) == r1.rc = r2.rc /\ r1.eff = r2.eff

Succeeds(e, r, d) ==
  IF e = "prince" THEN PrinceVerdict(r, d) = << >>
  ELSE VivliostyleVerdict(VivliostyleStreams(r, host.win32), d) = << >>

RunPc(e) == IF e = "prince" THEN "prince_run" ELSE "vivliostyle_run"

Inputs(args) ==
  LET ins == SelectSeq(args, LAMBDA x : x.k = "input")
  IN [i \in DOMAIN ins |-> ins[i].v]

\* the spine read off the package document: the file of each idref
SpineFiles(a) ==
  [i \in DOMAIN a.spine |->
     LET j == CHOOSE k \in DOMAIN a.manifest : a.manifest[k].id = a.spine[i]
     IN Under(PackageDir, a.manifest[j].href)]

C19_SpineOrderKept ==
  /\ pc = "prince_run" =>
       \A a \in ValidArchives : \A b \in ValidArchives :
         a.spine = b.spine =>
           SubSeq(Inputs(PrinceArgs(a)), 1, Len(a.spine))
             = SubSeq(Inputs(PrinceArgs(b)), 1, Len(b.spine))
  /\ LET a == source.archive
     IN princeArgs # << >> /\ a.spine # << >> /\ a \in ValidArchives =>
          /\ Has("proc", "prince")
          /\ SubSeq(Inputs(princeArgs), 1, Len(a.spine)) = SpineFiles(a)
          /\ Inputs(princeArgs) = SpineFiles(a) \o <<Under(PackageDir, a.nav)>>

\* Prince was started on a valid EPUB whose manifest declares a before b and whose
\* spine lists b before a
C19_Witness ==
  /\ source.archive \in ValidArchives
  /\ source.archive.manifest = ManifestAB
  /\ source.archive.spine = <<"b", "a">>
  /\ Has("proc", "prince")
  /\ Len(Inputs(princeArgs)) >= 2

(***************************************************************************)
(* C20: when convert_epub_to_pdf returns a path, the non-empty file there  *)
(* was written during this call by the engine whose adapter returned: it   *)
(* is neither a file that was at the destination before the call nor the   *)
(* output of an engine that failed earlier in the call.                    *)
(***************************************************************************)
C20_OutputWrittenBySuccessfulAttempt ==
  outcome.kind = "return" =>
    /\ dest.state = "nonempty"
    /\ dest.writer = outcome.by

(***************************************************************************)
(* C17: at most one conversion is in flight in the front end.  While       *)
(* is_converting is True a press of the convert button is refused: no      *)
(* step starts a worker thread, records a new output path or touches the   *)
(* log pane, and no step of the front end clears is_converting or makes a  *)
(* call of convert_epub_to_pdf (clearing it is left to                     *)
(* _conversion_complete).                                                  *)
(***************************************************************************)
C17_OneConversionAtATime ==
  [][ is_converting =>
        /\ is_converting'
        /\ workers' = workers
        /\ output_path' = output_path
        /\ log_text' = log_text
        /\ progress_label' = progress_label
        /\ UNCHANGED coreVars
        /\ requests' # requests => requests' = Append(requests, "refused") ]_vars

\* the convert button was pressed again while is_converting was True, and the press
\* was refused
C17_Witness ==
  /\ is_converting
  /\ \E i \in DOMAIN requests : \E j \in DOMAIN requests :
       i < j /\ requests[i] \notin {"refused", "cancelled"} /\ requests[j] = "refused"

(***************************************************************************)
(* C18: every conversion the front end has started reaches its terminal    *)
(* outcome.  Stated on finite runs: once _start_conversion has set         *)
(* is_converting it has started the worker thread that is to call          *)
(* convert_epub_to_pdf and clear the flag, for each selectable method.     *)
(***************************************************************************)
C18_StartedConversionHasWorker ==
  is_converting => workers > 0 /\ requests[Len(requests)] # "AttributeError"

(***************************************************************************)
(* C21: the method the front end passes to convert_epub_to_pdf is the one  *)
(* selected in the radio group: for every conversion begun, the method     *)
(* looked up for the worker's call is the member of ConversionMethod whose *)
(* value is the selection, so an explicit engine choice is never replaced  *)
(* by automatic mode.                                                      *)
(***************************************************************************)
C21_SelectedMethodPassed ==
  \A i \in DOMAIN methods :
    /\ methods[i].method \in ConversionMethodMembers
    /\ MemberValue(methods[i].method) = methods[i].selected

(***************************************************************************)
(* C22: in automatic mode, whenever "Prince failed, trying Vivliostyle..." *)
(* has been delivered, the Vivliostyle adapter is invoked later in the     *)
(* same call.  Stated of a call that has ended: each delivery of the       *)
(* notification is followed in the history by the adapter's invocation.    *)
(***************************************************************************)
C22_AnnouncedFallbackAttempted ==
  method = "auto" /\ Done =>
    \A i \in DOMAIN events :
      events[i] = Event("progress", "Prince failed, trying Vivliostyle...") =>
        \E j \in (i + 1)..Len(events) : events[j] = Event("call", "vivliostyle")

====
